---- MODULE Spec2Model ----
(***************************************************************************)
(* k8s-certmon: the refresh goroutine that scans the cluster's TLS         *)
(* certificates and the HTTP handler that serves the shared currentStatus. *)
(*                                                                         *)
(* Two revisions of main.go are modelled:                                  *)
(*   variant = "ingress"  src/main.go          (getIngresses)              *)
(*   variant = "secrets"  src/unnamed/part_000 (getCertificateList)        *)
(*                                                                         *)
(* Time is in whole seconds (time.Now().Unix()).  All time.Now() reads     *)
(* made inside one call of getIngresses/getCertificateList return the      *)
(* value of the clock at the moment the call is made; the clock advances   *)
(* between the steps of the goroutine.                                     *)
(***************************************************************************)
EXTENDS Integers, Sequences, FiniteSets, TLC

(***************************************************************************)
(* Bounds of the model.                                                    *)
(***************************************************************************)
MaxCycles == 2       \* refresh cycles started in one behaviour
MaxTime == 1         \* the clock runs over 0..MaxTime seconds
MaxSources == 2      \* TLS sources (ingress TLS entries / secrets) per cycle
MaxHosts == 2        \* hosts listed in one ingress TLS entry

(***************************************************************************)
(* Program constants.                                                      *)
(***************************************************************************)
SecondsPerDay == 86400
DefaultCritDaysLeft == 3
DefaultWarnDaysLeft == 30

(***************************************************************************)
(* Go slices: a nil slice and an empty slice are different values (they    *)
(* serialise differently), append to either gives a non-nil slice.         *)
(***************************************************************************)
NilSlice == [isNil |-> TRUE, items |-> <<>>]

MakeSlice == [isNil |-> FALSE, items |-> <<>>]

AppendSlice(s, x) == [isNil |-> FALSE, items |-> Append(s.items, x)]

LenSlice(s) == Len(s.items)

(***************************************************************************)
(* Go integer division truncates toward zero (TLA+ \div rounds down).      *)
(***************************************************************************)
\* Mutant: the quotient is rounded down.
TruncDiv_Floor(a, b) == a \div b

TruncDiv(a, b) == IF a >= 0 THEN a \div b ELSE -((-a) \div b)

(***************************************************************************)
(* Host names and x509.Certificate.VerifyHostname on them: a name of the   *)
(* certificate covers a host when it is equal to it or is a wildcard for   *)
(* the host's parent domain.                                               *)
(***************************************************************************)
ParentDomain(h) ==
    CASE h = "b.example.com" -> "example.com"
      [] h = "www.other.org" -> "other.org"
      [] OTHER -> ""

WildcardDomain(p) ==
    CASE p = "*.example.com" -> "example.com"
      [] OTHER -> "-"

MatchHostname(pattern, host) ==
    pattern = host \/ WildcardDomain(pattern) = ParentDomain(host)

\* nil (TRUE) when some DNS name of the certificate covers h.
VerifyHostname(cert, h) ==
    \E i \in 1..Len(cert.DNSNames) : MatchHostname(cert.DNSNames[i], h)

(***************************************************************************)
(* Messages.  The formatted strings are kept as records of the format      *)
(* (kind) and of the values substituted into it.                           *)
(***************************************************************************)
Msg(kind, ns, name, dns, days, host, at) ==
    [kind |-> kind, ns |-> ns, name |-> name, dns |-> dns,
     days |-> days, host |-> host, at |-> at]

NoCert == [NotBefore |-> 0, NotAfter |-> 0, Issuer |-> "", DNSNames |-> <<>>,
           CommonNames |-> <<>>]

\* Mutant: the error of x509.ParseCertificate is ignored.
getx509Data_IgnoreParseError(secret, withGet) ==
    IF withGet /\ secret.getErr
    THEN [err |-> "secret get failed", cert |-> NoCert]
    ELSE IF ~secret.hasCrt
    THEN [err |-> "tls.crt does not exist", cert |-> NoCert]
    ELSE IF ~secret.crtLen
    THEN [err |-> "tls.crt is empty", cert |-> NoCert]
    ELSE IF ~secret.pemOK
    THEN [err |-> "Failed to decode certificate", cert |-> NoCert]
    ELSE [err |-> "", cert |-> secret.cert]

(***************************************************************************)
(* getx509Data.  A secret as the cluster returns it is described by        *)
(*   getErr    the Secrets().Get call failed (ingress revision only)       *)
(*   hasCrt    Data holds the key "tls.crt"                                *)
(*   crtLen    len(Data["tls.crt"]) > 0                                    *)
(*   pemOK     pem.Decode finds a block                                    *)
(*   x509OK    x509.ParseCertificate accepts the block                     *)
(*   cert      the certificate the block encodes                           *)
(* The result is [err |-> message kind or "", cert |-> certificate].       *)
(***************************************************************************)
getx509Data(secret, withGet) ==
    IF withGet /\ secret.getErr
    THEN [err |-> "secret get failed", cert |-> NoCert]
    ELSE IF ~secret.hasCrt
    THEN [err |-> "tls.crt does not exist", cert |-> NoCert]
    ELSE IF ~secret.crtLen
    THEN [err |-> "tls.crt is empty", cert |-> NoCert]
    ELSE IF ~secret.pemOK
    THEN [err |-> "Failed to decode certificate", cert |-> NoCert]
    ELSE IF ~secret.x509OK
    THEN [err |-> "Failed to parse certificate", cert |-> NoCert]
    ELSE [err |-> "", cert |-> secret.cert]

\* daysLeft := (x509Data.NotAfter.Unix() - time.Now().Unix()) / 86400
DaysLeft(notAfter, now) == TruncDiv(notAfter - now, SecondsPerDay)

(***************************************************************************)
(* The expiry classification, shared by both revisions: the if/else chain  *)
(* on daysLeft.  st holds the cycle's errors and warnings and the          *)
(* CertificateInfo being filled; owner is the name printed in the message  *)
(* (the ingress name, or the secret name in the secrets revision).         *)
(* ExpiryChain is the chain with its three tests as arguments.             *)
(***************************************************************************)
\* Mutant: the critical branch clears IsValid as the expired branch does.
ExpiryChain_CritInvalid(st, ns, owner, isExpired, isCritical, isWarning) ==
    LET c == st.certInfo
    IN  IF isExpired
        THEN [st EXCEPT
                !.errors = AppendSlice(@, Msg("expired on", ns, owner, c.DNSNames,
                                              0, "", c.NotAfter)),
                !.certInfo.IsValid = FALSE]
        ELSE IF isCritical
        THEN [st EXCEPT
                !.errors = AppendSlice(@, Msg("will expire in", ns, owner, c.DNSNames,
                                              c.DaysLeft, "", c.NotAfter)),
                !.certInfo.IsValid = FALSE]
        ELSE IF isWarning
        THEN [st EXCEPT
                !.warnings = AppendSlice(@, Msg("will expire in", ns, owner, c.DNSNames,
                                                c.DaysLeft, "", c.NotAfter))]
        ELSE st

ExpiryChain(st, ns, owner, isExpired, isCritical, isWarning) ==
    LET c == st.certInfo
    IN  IF isExpired
        THEN [st EXCEPT
                !.errors = AppendSlice(@, Msg("expired on", ns, owner, c.DNSNames,
                                              0, "", c.NotAfter)),
                !.certInfo.IsValid = FALSE]
        ELSE IF isCritical
        THEN [st EXCEPT
                !.errors = AppendSlice(@, Msg("will expire in", ns, owner, c.DNSNames,
                                              c.DaysLeft, "", c.NotAfter))]
        ELSE IF isWarning
        THEN [st EXCEPT
                !.warnings = AppendSlice(@, Msg("will expire in", ns, owner, c.DNSNames,
                                                c.DaysLeft, "", c.NotAfter))]
        ELSE st

\* Mutant: a certificate at daysLeft = 0 is not yet expired.
ExpiryCheck_ExpiredStrict(st, cfg, ns, owner) ==
    LET daysLeft == st.certInfo.DaysLeft
    IN  ExpiryChain(st, ns, owner,
                    daysLeft < 0,
                    daysLeft <= cfg.CritDaysLeft,
                    daysLeft < cfg.WarnDaysLeft)

\* Mutant: the critical threshold itself is not critical.
ExpiryCheck_CritStrict(st, cfg, ns, owner) ==
    LET daysLeft == st.certInfo.DaysLeft
    IN  ExpiryChain(st, ns, owner,
                    daysLeft <= 0,
                    daysLeft < cfg.CritDaysLeft,
                    daysLeft < cfg.WarnDaysLeft)

\* Mutant: the critical test reads the warning threshold.
ExpiryCheck_CritUsesWarn(st, cfg, ns, owner) ==
    LET daysLeft == st.certInfo.DaysLeft
    IN  ExpiryChain(st, ns, owner,
                    daysLeft <= 0,
                    daysLeft <= cfg.WarnDaysLeft,
                    daysLeft < cfg.WarnDaysLeft)

\* Mutant: the warning threshold itself still warns.
ExpiryCheck_WarnInclusive(st, cfg, ns, owner) ==
    LET daysLeft == st.certInfo.DaysLeft
    IN  ExpiryChain(st, ns, owner,
                    daysLeft <= 0,
                    daysLeft <= cfg.CritDaysLeft,
                    daysLeft <= cfg.WarnDaysLeft)

\* Mutant: the warning test comes before the critical test.
ExpiryCheck_WarnFirst(st, cfg, ns, owner) ==
    LET daysLeft == st.certInfo.DaysLeft
    IN  ExpiryChain(st, ns, owner,
                    daysLeft <= 0,
                    daysLeft <= cfg.CritDaysLeft /\ ~(daysLeft < cfg.WarnDaysLeft),
                    daysLeft < cfg.WarnDaysLeft)

\* if daysLeft <= 0 {...} else if daysLeft <= int64(appConfig.CritDaysLeft)
\* {...} else if daysLeft < int64(appConfig.WarnDaysLeft) {...}
ExpiryCheck(st, cfg, ns, owner) ==
    LET daysLeft == st.certInfo.DaysLeft
    IN  ExpiryChain(st, ns, owner,
                    daysLeft <= 0,
                    daysLeft <= cfg.CritDaysLeft,
                    daysLeft < cfg.WarnDaysLeft)

\* Mutant: the loop stops at the first host that is not covered.
HostCheck_ShortCircuit(st, cert, hosts, i, ns, owner) ==
    LET bad == {j \in i..Len(hosts) : ~VerifyHostname(cert, hosts[j])}
    IN  IF bad = {} THEN st
        ELSE LET j == CHOOSE k \in bad : \A l \in bad : k <= l
             IN  [st EXCEPT
                    !.errors = AppendSlice(@, Msg("is not valid for host", ns, owner,
                                                  <<>>, 0, hosts[j], 0)),
                    !.certInfo.IsValid = FALSE]

\* Mutant: a host that is not covered only clears IsValid.
HostCheck_NoError(st, cert, hosts, i, ns, owner) ==
    IF \E j \in i..Len(hosts) : ~VerifyHostname(cert, hosts[j])
    THEN [st EXCEPT !.certInfo.IsValid = FALSE]
    ELSE st

(***************************************************************************)
(* The VerifyHostname loop of getIngresses over tlsSpec.Hosts, from host   *)
(* number i on.                                                            *)
(***************************************************************************)
RECURSIVE HostCheck(_, _, _, _, _, _)
HostCheck(st, cert, hosts, i, ns, owner) ==
    IF i > Len(hosts) THEN st
    ELSE IF ~VerifyHostname(cert, hosts[i])
    THEN HostCheck([st EXCEPT
                      !.errors = AppendSlice(@, Msg("is not valid for host", ns, owner,
                                                    <<>>, 0, hosts[i], 0)),
                      !.certInfo.IsValid = FALSE],
                   cert, hosts, i + 1, ns, owner)
    ELSE HostCheck(st, cert, hosts, i + 1, ns, owner)

(***************************************************************************)
(* getIngresses, body of the loop over ingress.Spec.TLS: one TLS entry     *)
(* src of an ingress of namespace ns.  acc holds ingressInfoList,          *)
(* warnings and errors.                                                    *)
(***************************************************************************)
IngressTLSStep(acc, ns, src, cfg, now) ==
    LET x509Data == getx509Data(src.secret, TRUE)
    IN  IF x509Data.err # ""
        THEN [acc EXCEPT !.errors = AppendSlice(@, Msg(x509Data.err, ns, src.secretName,
                                                      <<>>, 0, "", 0))]
        ELSE
          LET cert == x509Data.cert
              certInfo == [NotBefore |-> cert.NotBefore,
                           NotAfter |-> cert.NotAfter,
                           Issuer |-> cert.Issuer,
                           DNSNames |-> cert.DNSNames,
                           DaysLeft |-> DaysLeft(cert.NotAfter, now),
                           IsValid |-> TRUE,
                           CommonNames |-> cert.CommonNames]
              st0 == [errors |-> acc.errors, warnings |-> acc.warnings,
                      certInfo |-> certInfo]
              st1 == ExpiryCheck(st0, cfg, ns, src.name)
              st2 == HostCheck(st1, cert, src.hosts, 1, ns, src.name)
              ingressInfo == [Name |-> src.name, Namespace |-> ns,
                              Hosts |-> src.hosts,
                              TLSSecretName |-> src.secretName,
                              CertificateInfo |-> st2.certInfo]
          IN  [list |-> AppendSlice(acc.list, ingressInfo),
               warnings |-> st2.warnings,
               errors |-> st2.errors]

(***************************************************************************)
(* getCertificateList, body of the loop over secrets.Items.                *)
(***************************************************************************)
\* Mutant: the copies kubed made in other namespaces are not skipped.
SecretStep_NoOriginCheck(acc, ns, src, cfg, now) ==
    IF src.type # "kubernetes.io/tls" THEN acc
    ELSE IF FALSE THEN acc
    ELSE
      LET x509Data == getx509Data(src.secret, FALSE)
      IN  IF x509Data.err # ""
          THEN [acc EXCEPT !.errors = AppendSlice(@, Msg(x509Data.err, ns, src.secretName,
                                                        <<>>, 0, "", 0))]
          ELSE
            LET cert == x509Data.cert
                certInfo == [SecretName |-> src.secretName,
                             Namespace |-> ns,
                             NotBefore |-> cert.NotBefore,
                             NotAfter |-> cert.NotAfter,
                             Issuer |-> cert.Issuer,
                             DNSNames |-> cert.DNSNames,
                             DaysLeft |-> DaysLeft(cert.NotAfter, now),
                             IsValid |-> TRUE,
                             CommonNames |-> cert.CommonNames]
                st0 == [errors |-> acc.errors, warnings |-> acc.warnings,
                        certInfo |-> certInfo]
                st1 == ExpiryCheck(st0, cfg, ns, src.secretName)
            IN  [list |-> AppendSlice(acc.list, st1.certInfo),
                 warnings |-> st1.warnings,
                 errors |-> st1.errors]

SecretStep(acc, ns, src, cfg, now) ==
    IF src.type # "kubernetes.io/tls" THEN acc
    ELSE IF src.hasOrigin /\ src.originNS # ns THEN acc
    ELSE
      LET x509Data == getx509Data(src.secret, FALSE)
      IN  IF x509Data.err # ""
          THEN [acc EXCEPT !.errors = AppendSlice(@, Msg(x509Data.err, ns, src.secretName,
                                                        <<>>, 0, "", 0))]
          ELSE
            LET cert == x509Data.cert
                certInfo == [SecretName |-> src.secretName,
                             Namespace |-> ns,
                             NotBefore |-> cert.NotBefore,
                             NotAfter |-> cert.NotAfter,
                             Issuer |-> cert.Issuer,
                             DNSNames |-> cert.DNSNames,
                             DaysLeft |-> DaysLeft(cert.NotAfter, now),
                             IsValid |-> TRUE,
                             CommonNames |-> cert.CommonNames]
                st0 == [errors |-> acc.errors, warnings |-> acc.warnings,
                        certInfo |-> certInfo]
                st1 == ExpiryCheck(st0, cfg, ns, src.secretName)
            IN  [list |-> AppendSlice(acc.list, st1.certInfo),
                 warnings |-> st1.warnings,
                 errors |-> st1.errors]

SourceStep(variant, acc, ns, src, cfg, now) ==
    IF variant = "ingress" THEN IngressTLSStep(acc, ns, src, cfg, now)
    ELSE SecretStep(acc, ns, src, cfg, now)

\* The loop over the items of one namespace, from item number i on.
RECURSIVE ItemsLoop(_, _, _, _, _, _, _)
ItemsLoop(variant, acc, ns, items, i, cfg, now) ==
    IF i > Len(items) THEN acc
    ELSE ItemsLoop(variant, SourceStep(variant, acc, ns, items[i], cfg, now),
                   ns, items, i + 1, cfg, now)

(***************************************************************************)
(* The loop over namespaces.Items, from namespace number k on.  The error  *)
(* of the per-namespace List call is discarded (`ingresses, _ :=`); the    *)
(* test `if err != nil` that follows reads the err of the namespace        *)
(* listing, which is nil here.  A failed List gives a list without items.  *)
(***************************************************************************)
RECURSIVE NamespaceLoop(_, _, _, _, _, _)
NamespaceLoop(variant, acc, namespaces, k, cfg, now) ==
    IF k > Len(namespaces) THEN acc
    ELSE LET n == namespaces[k]
             items == IF n.listErr THEN <<>> ELSE n.items
         IN  NamespaceLoop(variant,
                           ItemsLoop(variant, acc, n.name, items, 1, cfg, now),
                           namespaces, k + 1, cfg, now)

EmptyAcc == [list |-> NilSlice, warnings |-> NilSlice, errors |-> NilSlice]

\* Mutant: the failed namespace listing is not reported.
NamespaceListError_Silent == EmptyAcc

\* errors = append(errors, err.Error()); return nil, warnings, errors
NamespaceListError ==
    [list |-> NilSlice, warnings |-> NilSlice,
     errors |-> AppendSlice(NilSlice,
                            Msg("namespace list failed", "", "", <<>>, 0, "", 0))]

\* getIngresses (src/main.go): what one cycle computes from what the
\* cluster answers (obs) at time now.
getIngresses(obs, cfg, now) ==
    IF obs.nsErr THEN NamespaceListError
    ELSE NamespaceLoop("ingress", EmptyAcc, obs.namespaces, 1, cfg, now)

\* if warnings == nil { warnings = make([]string, 0) }, the same for errors
NormaliseNil(s) == IF s.isNil THEN MakeSlice ELSE s

\* getCertificateList (src/unnamed/part_000).
getCertificateList(obs, cfg, now) ==
    IF obs.nsErr THEN NamespaceListError
    ELSE LET acc == NamespaceLoop("secrets", EmptyAcc, obs.namespaces, 1, cfg, now)
         IN  [list |-> acc.list,
              warnings |-> NormaliseNil(acc.warnings),
              errors |-> NormaliseNil(acc.errors)]

(***************************************************************************)
(* encoding/json on the StatusResponse: exported fields under their json   *)
(* keys, a nil slice as null, any other slice as an array; the x509 field  *)
(* of IngressInfo is tagged json:"-" and left out.                         *)
(***************************************************************************)
MarshalStrings(s) ==
    IF s.isNil THEN [json |-> "null", elems |-> <<>>]
    ELSE [json |-> "array", elems |-> s.items]

MarshalCertificateInfo(c) ==
    [issuer |-> c.Issuer, commonNames |-> c.CommonNames,
     notBefore |-> c.NotBefore, notAfter |-> c.NotAfter,
     dnsNames |-> c.DNSNames, daysLeft |-> c.DaysLeft, isValid |-> c.IsValid]

MarshalRecord(variant, r) ==
    IF variant = "ingress"
    THEN [name |-> r.Name, namespace |-> r.Namespace, hosts |-> r.Hosts,
          tlsSecretName |-> r.TLSSecretName,
          certificate |-> MarshalCertificateInfo(r.CertificateInfo)]
    ELSE [secretName |-> r.SecretName, namespace |-> r.Namespace,
          certificate |-> MarshalCertificateInfo(r)]

MarshalCertificates(variant, s) ==
    IF s.isNil THEN [json |-> "null", elems |-> <<>>]
    ELSE [json |-> "array",
          elems |-> [i \in 1..Len(s.items) |-> MarshalRecord(variant, s.items[i])]]

\* json.MarshalIndent(currentStatus, "", "  ") on the copy passed to it.
MarshalIndent(variant, status) ==
    [lastUpdated |-> status.LastUpdated,
     errors |-> MarshalStrings(status.Errors),
     warnings |-> MarshalStrings(status.Warnings),
     certificates |-> MarshalCertificates(variant, status.Certificates)]

(***************************************************************************)
(* State.                                                                  *)
(***************************************************************************)
VARIABLES
    variant,        \* which revision of main.go runs
    appConfig,      \* CritDaysLeft, WarnDaysLeft
    now,            \* the clock, in seconds
    currentStatus,  \* the StatusResponse shared by goroutine and handler
    rpc,            \* position of the refresh goroutine
    cycle,          \* number of cycles started
    start,          \* local start of the goroutine
    obs,            \* what the cluster answered to the running cycle
    fetched,        \* locals ingressList/certList, warnings, errors
    fetchedAt,      \* the clock value the cycle's time.Now() calls returned
    newStatus,      \* the StatusResponse value being assigned
    pending,        \* fields of currentStatus the assignment has not stored yet
    published,      \* history: the values assigned so far, in order
    hpc,            \* position of the HTTP handler
    code,           \* status code passed to WriteHeader (0: none yet)
    copy,           \* the handler's copy of currentStatus given to MarshalIndent
    copied,         \* number of fields of the copy already read
    response,       \* the last response written: code and body
    arrived         \* history: the number of snapshots published when the
                    \* request being handled arrived

vars == <<variant, appConfig, now, currentStatus, rpc, cycle, start, obs, fetched,
          fetchedAt, newStatus, pending, published, hpc, code, copy, copied, response,
          arrived>>

refresherVars == <<rpc, cycle, start, obs, fetched, fetchedAt, newStatus, pending, published,
                   currentStatus>>

handlerVars == <<hpc, code, copy, copied, response, arrived>>

\* The fields of StatusResponse, in declaration order.
Fields == <<"LastUpdated", "Errors", "Warnings", "Certificates">>

FieldSet == {Fields[i] : i \in 1..Len(Fields)}

\* time.Now().String()
TimeString(t) == <<t>>

\* var currentStatus StatusResponse: the zero value.
ZeroStatus ==
    [LastUpdated |-> <<>>, Errors |-> NilSlice, Warnings |-> NilSlice,
     Certificates |-> NilSlice]

NoObs == [nsErr |-> FALSE, namespaces |-> <<>>]

NoResponse == [code |-> 0, body |-> MarshalIndent("ingress", ZeroStatus)]

Variants == {"ingress", "secrets"}

\* DAYS_LEFT_CRITICAL_THRESHOLD / DAYS_LEFT_WARN_THRESHOLD: the defaults,
\* and the two exchanged (a warning threshold below the critical one; the
\* settings are not validated).
Configs ==
    {[CritDaysLeft |-> DefaultCritDaysLeft, WarnDaysLeft |-> DefaultWarnDaysLeft],
     [CritDaysLeft |-> DefaultWarnDaysLeft, WarnDaysLeft |-> DefaultCritDaysLeft]}

\* The state after main has set up the configuration and declared
\* currentStatus, before the goroutine and the server start.
Start(cfgs) ==
    /\ variant \in Variants
    /\ appConfig \in cfgs
    /\ now = 0
    /\ currentStatus = ZeroStatus
    /\ rpc = "start"
    /\ cycle = 0
    /\ start = 0
    /\ obs = NoObs
    /\ fetched = EmptyAcc
    /\ fetchedAt = 0
    /\ newStatus = ZeroStatus
    /\ pending = {}
    /\ published = <<>>
    /\ hpc = "idle"
    /\ code = 0
    /\ copy = ZeroStatus
    /\ copied = 0
    /\ response = NoResponse
    /\ arrived = 0

DefaultConfig ==
    [CritDaysLeft |-> DefaultCritDaysLeft, WarnDaysLeft |-> DefaultWarnDaysLeft]

Init == Start({DefaultConfig})

InitClassify == Start(Configs)

\* The clock advances.
Tick ==
    /\ now < MaxTime
    /\ now' = now + 1
    /\ UNCHANGED <<variant, appConfig, refresherVars, handlerVars>>

(***************************************************************************)
(* The refresh goroutine.                                                  *)
(***************************************************************************)
\* start := time.Now().Unix()
StartCycle ==
    /\ rpc = "start"
    /\ cycle < MaxCycles
    /\ cycle' = cycle + 1
    /\ start' = now
    /\ rpc' = "fetch"
    /\ UNCHANGED <<variant, appConfig, now, currentStatus, obs, fetched, fetchedAt,
                   newStatus, pending, published, handlerVars>>

\* Mutant: a failed namespace listing ends the goroutine.
Fetch_Fatal(o) ==
    /\ rpc = "fetch"
    /\ obs' = o
    /\ fetched' = IF variant = "ingress" THEN getIngresses(o, appConfig, now)
                  ELSE getCertificateList(o, appConfig, now)
    /\ fetchedAt' = now
    /\ rpc' = IF o.nsErr THEN "exit" ELSE "assign"
    /\ UNCHANGED <<variant, appConfig, now, currentStatus, cycle, start, newStatus,
                   pending, published, handlerVars>>

\* Mutant: the scan collects its errors in the shared currentStatus.
Fetch_InPlace(o) ==
    /\ rpc = "fetch"
    /\ obs' = o
    /\ fetched' = IF variant = "ingress" THEN getIngresses(o, appConfig, now)
                  ELSE getCertificateList(o, appConfig, now)
    /\ currentStatus' = [currentStatus EXCEPT !.Errors = fetched'.errors]
    /\ fetchedAt' = now
    /\ rpc' = "assign"
    /\ UNCHANGED <<variant, appConfig, now, cycle, start, newStatus,
                   pending, published, handlerVars>>

\* Mutant: the errors of the cycle are appended to those of the cycle before.
Fetch_CarryOver(o) ==
    /\ rpc = "fetch"
    /\ obs' = o
    /\ fetched' =
          LET new == IF variant = "ingress" THEN getIngresses(o, appConfig, now)
                     ELSE getCertificateList(o, appConfig, now)
          IN  [new EXCEPT !.errors = [isNil |-> fetched.errors.isNil /\ new.errors.isNil,
                                      items |-> fetched.errors.items \o new.errors.items]]
    /\ fetchedAt' = now
    /\ rpc' = "assign"
    /\ UNCHANGED <<variant, appConfig, now, currentStatus, cycle, start, newStatus,
                   pending, published, handlerVars>>

\* ingressList, warnings, errors := getIngresses(&appConfig), the cluster
\* answering o.
Fetch(o) ==
    /\ rpc = "fetch"
    /\ obs' = o
    /\ fetched' = IF variant = "ingress" THEN getIngresses(o, appConfig, now)
                  ELSE getCertificateList(o, appConfig, now)
    /\ fetchedAt' = now
    /\ rpc' = "assign"
    /\ UNCHANGED <<variant, appConfig, now, currentStatus, cycle, start, newStatus,
                   pending, published, handlerVars>>

\* The composite literal StatusResponse{...} is evaluated.
BuildStatus ==
    /\ rpc = "assign"
    /\ newStatus' = [LastUpdated |-> TimeString(now),
                     Errors |-> fetched.errors,
                     Warnings |-> fetched.warnings,
                     Certificates |-> fetched.list]
    /\ pending' = FieldSet
    /\ rpc' = "store"
    /\ UNCHANGED <<variant, appConfig, now, currentStatus, cycle, start, obs, fetched,
                   fetchedAt, published, handlerVars>>

\* currentStatus = ...: a plain multi-word store with no synchronisation;
\* the fields reach memory one at a time, in an order the build chooses.
StoreField(f) ==
    /\ rpc = "store"
    /\ f \in pending
    /\ currentStatus' = [currentStatus EXCEPT ![f] = newStatus[f]]
    /\ pending' = pending \ {f}
    /\ IF pending' = {}
       THEN /\ rpc' = "log"
            /\ published' = Append(published, newStatus)
       ELSE UNCHANGED <<rpc, published>>
    /\ UNCHANGED <<variant, appConfig, now, cycle, start, obs, fetched, fetchedAt,
                   newStatus, handlerVars>>

\* The log lines; stop := time.Now().Unix().
LogCycle ==
    /\ rpc = "log"
    /\ rpc' = "sleep"
    /\ UNCHANGED <<variant, appConfig, now, currentStatus, cycle, start, obs, fetched,
                   fetchedAt, newStatus, pending, published, handlerVars>>

\* time.Sleep(UpdateInterval) returns and the loop starts over.
Sleep ==
    /\ rpc = "sleep"
    /\ rpc' = "start"
    /\ UNCHANGED <<variant, appConfig, now, currentStatus, cycle, start, obs, fetched,
                   fetchedAt, newStatus, pending, published, handlerVars>>

(***************************************************************************)
(* The HTTP handler.                                                       *)
(***************************************************************************)
\* A request arrives; the Content-Type header is added.
Request ==
    /\ hpc = "idle"
    /\ hpc' = "checkErrors"
    /\ arrived' = Len(published)
    /\ UNCHANGED <<variant, appConfig, now, refresherVars, code, copy, copied, response>>

\* if len(currentStatus.Errors) > 0 { w.WriteHeader(202) }
CheckErrors ==
    /\ hpc = "checkErrors"
    /\ IF LenSlice(currentStatus.Errors) > 0
       THEN code' = 202 /\ hpc' = "copy"
       ELSE code' = code /\ hpc' = "checkWarnings"
    /\ UNCHANGED <<variant, appConfig, now, refresherVars, copy, copied, response,
                   arrived>>

\* Mutant: the two codes of the else branches are exchanged.
CheckWarnings_Swapped ==
    /\ hpc = "checkWarnings"
    /\ code' = IF LenSlice(currentStatus.Warnings) > 0 THEN 200 ELSE 201
    /\ hpc' = "copy"
    /\ UNCHANGED <<variant, appConfig, now, refresherVars, copy, copied, response,
                   arrived>>

\* else if len(currentStatus.Warnings) > 0 { 201 } else { 200 }
CheckWarnings ==
    /\ hpc = "checkWarnings"
    /\ code' = IF LenSlice(currentStatus.Warnings) > 0 THEN 201 ELSE 200
    /\ hpc' = "copy"
    /\ UNCHANGED <<variant, appConfig, now, refresherVars, copy, copied, response,
                   arrived>>

\* currentStatus is passed to MarshalIndent by value: its fields are read
\* one after the other.
CopyField ==
    /\ hpc = "copy"
    /\ copied < Len(Fields)
    /\ copied' = copied + 1
    /\ copy' = [copy EXCEPT ![Fields[copied']] = currentStatus[Fields[copied']]]
    /\ hpc' = IF copied' = Len(Fields) THEN "write" ELSE "copy"
    /\ UNCHANGED <<variant, appConfig, now, refresherVars, code, response, arrived>>

\* j, err := json.MarshalIndent(...); w.Write(j).  MarshalIndent does not
\* fail on a StatusResponse (strings, ints, bools and slices of them).
WriteBody ==
    /\ hpc = "write"
    /\ response' = [code |-> code, body |-> MarshalIndent(variant, copy)]
    /\ hpc' = "done"
    /\ UNCHANGED <<variant, appConfig, now, refresherVars, code, copy, copied,
                   arrived>>

\* The handler returns; its locals and the response are gone.
Return ==
    /\ hpc = "done"
    /\ hpc' = "idle"
    /\ code' = 0
    /\ copy' = ZeroStatus
    /\ copied' = 0
    /\ response' = NoResponse
    /\ arrived' = 0
    /\ UNCHANGED <<variant, appConfig, now, refresherVars>>

(***************************************************************************)
(* What the cluster can answer.  An observation is                         *)
(*   nsErr       Namespaces().List failed                                  *)
(*   namespaces  the namespaces listed, each with                          *)
(*     listErr   the Ingresses/Secrets List of the namespace failed        *)
(*     items     the TLS entries (secrets) of the namespace                *)
(* A source is described by the names of its owner and secret, the hosts   *)
(* of the TLS entry, the type and kubed origin label of the secret and     *)
(* the secret's payload (see getx509Data).                                 *)
(***************************************************************************)
NsNames == <<"default", "prod">>

IngressNames == <<"web1", "web2", "web3", "web4">>

SecretNames == <<"tls1", "tls2", "tls3", "tls4">>

\* Hosts an ingress may list, and the names a certificate may carry: a
\* certificate covers neither host, the first one by an exact match, or the
\* second one by its wildcard.
HostNames == {"www.other.org", "b.example.com"}

DNSNameLists == {<<"a.example.com">>, <<"www.other.org">>, <<"*.example.com">>}

Cert(notAfter, dns) ==
    [NotBefore |-> 0, NotAfter |-> notAfter, Issuer |-> "ca", DNSNames |-> dns,
     CommonNames |-> <<dns[1]>>]

GoodSecret(cert) ==
    [getErr |-> FALSE, hasCrt |-> TRUE, crtLen |-> TRUE, pemOK |-> TRUE,
     x509OK |-> TRUE, cert |-> cert]

\* The payloads getx509Data rejects, one for each of its error returns.
BadSecrets(withGet) ==
    {[getErr |-> g, hasCrt |-> h, crtLen |-> l, pemOK |-> p, x509OK |-> x,
      cert |-> NoCert] :
        <<g, h, l, p, x>> \in
            {<<FALSE, FALSE, FALSE, FALSE, FALSE>>, <<FALSE, TRUE, FALSE, FALSE, FALSE>>,
             <<FALSE, TRUE, TRUE, FALSE, FALSE>>, <<FALSE, TRUE, TRUE, TRUE, FALSE>>}
            \cup (IF withGet THEN {<<TRUE, FALSE, FALSE, FALSE, FALSE>>} ELSE {})}

\* Expiry instants around every threshold of cfg: with the clock at 0 they
\* are -1, 0, 0, 2, Crit+1, 20, Warn and 100 days away; one second later the
\* positive ones are a day less.
NotAfters(cfg) ==
    {d * SecondsPerDay : d \in {-1, 0, 2, cfg.CritDaysLeft + 1, 20, cfg.WarnDaysLeft, 100}}
    \cup {1}

HostLists == UNION {[1..n -> HostNames] : n \in 0..MaxHosts}

Template(hosts, type, hasOrigin, originNS, secret) ==
    [hosts |-> hosts, type |-> type, hasOrigin |-> hasOrigin, originNS |-> originNS,
     secret |-> secret]

IngressTemplate(hosts, secret) == Template(hosts, "kubernetes.io/tls", FALSE, "", secret)

SecretTemplate(type, hasOrigin, originNS, secret) ==
    Template(<<>>, type, hasOrigin, originNS, secret)

\* Every source of the revision: each payload with each host list (ingress),
\* each payload with each type and origin label (secrets).
AllTemplates(v, cfg) ==
    LET good == {GoodSecret(Cert(t, dns)) : t \in NotAfters(cfg), dns \in DNSNameLists}
    IN  IF v = "ingress"
        THEN {IngressTemplate(h, sec) : h \in HostLists, sec \in good}
             \cup {IngressTemplate(<<"b.example.com">>, sec) : sec \in BadSecrets(TRUE)}
        ELSE {SecretTemplate(ty, lbl[1], lbl[2], sec) :
                ty \in {"kubernetes.io/tls", "Opaque"},
                lbl \in {<<FALSE, "">>, <<TRUE, "default">>, <<TRUE, "prod">>},
                sec \in {GoodSecret(Cert(t, <<"*.example.com">>)) : t \in NotAfters(cfg)}
                        \cup BadSecrets(FALSE)}

\* A few sources, used where several sources are combined.
BasicTemplates(v) ==
    LET ok(days) == GoodSecret(Cert(days * SecondsPerDay, <<"*.example.com">>))
        bad == {sec \in BadSecrets(v = "ingress") : sec.pemOK}
    IN  IF v = "ingress"
        THEN {IngressTemplate(<<"b.example.com">>, sec) : sec \in bad}
             \cup {IngressTemplate(<<"b.example.com">>, ok(d)) : d \in {0, 20}}
             \cup {IngressTemplate(<<"www.other.org">>, ok(100))}
        ELSE {SecretTemplate("kubernetes.io/tls", FALSE, "", sec) : sec \in bad}
             \cup {SecretTemplate("kubernetes.io/tls", FALSE, "", ok(d)) : d \in {0, 20}}
             \cup {SecretTemplate("Opaque", FALSE, "", ok(0))}

\* The source number k of a cycle gets the names number k.
Named(t, k) ==
    [name |-> IngressNames[k], secretName |-> SecretNames[k], hosts |-> t.hosts,
     type |-> t.type, hasOrigin |-> t.hasOrigin, originNS |-> t.originNS,
     secret |-> t.secret]

\* The templates ts[from..to] as named items.
Items(ts, from, to) == [i \in 1..(to - from + 1) |-> Named(ts[from + i - 1], from + i - 1)]

Namespace(k, listErr, items) == [name |-> NsNames[k], listErr |-> listErr, items |-> items]

\* The sources ts spread over the two namespaces, the first j in the first.
Cluster(ts, j) ==
    [nsErr |-> FALSE,
     namespaces |-> <<Namespace(1, FALSE, Items(ts, 1, j)),
                      Namespace(2, FALSE, Items(ts, j + 1, Len(ts)))>>]

\* The same with the listing of one namespace failing.
ClusterListErr(ts, k) ==
    [nsErr |-> FALSE,
     namespaces |-> <<Namespace(1, k = 1, IF k = 1 THEN <<>> ELSE Items(ts, 1, Len(ts))),
                      Namespace(2, k = 2, IF k = 2 THEN <<>> ELSE Items(ts, 1, Len(ts)))>>]

NsListFailed == [nsErr |-> TRUE, namespaces |-> <<>>]

\* The observations of the classification runs: the failed namespace
\* listing, every single source, and every arrangement of up to MaxSources
\* basic sources (with a failed listing of either namespace for at most one
\* source).
RichObservations(v, cfg) ==
    {NsListFailed}
    \cup {Cluster(<<t>>, 1) : t \in AllTemplates(v, cfg)}
    \cup UNION {UNION {{Cluster(ts, j) : j \in 0..n}
                       \cup {ClusterListErr(ts, k) : k \in (IF n <= 1 THEN 1..2 ELSE {})} :
                            ts \in [1..n -> BasicTemplates(v)]} :
                    n \in 0..MaxSources}

\* The observations of the concurrent runs: one of each kind of outcome.
Observations(v) ==
    LET ok(days) == GoodSecret(Cert(days * SecondsPerDay, <<"*.example.com">>))
        bad == [getErr |-> FALSE, hasCrt |-> FALSE, crtLen |-> FALSE, pemOK |-> FALSE,
                x509OK |-> FALSE, cert |-> NoCert]
        src(hosts, sec) == IF v = "ingress" THEN IngressTemplate(hosts, sec)
                           ELSE SecretTemplate("kubernetes.io/tls", FALSE, "", sec)
    IN  {NsListFailed,
         Cluster(<<>>, 0),
         Cluster(<<src(<<"b.example.com">>, ok(100))>>, 1),
         Cluster(<<src(<<"b.example.com">>, ok(20))>>, 1),
         Cluster(<<src(<<"b.example.com">>, bad), src(<<"b.example.com">>, ok(20))>>, 1)}

(***************************************************************************)
(* Spec: the goroutine and the handler run concurrently, every cycle       *)
(* finding the cluster in any of the states of Observations.               *)
(***************************************************************************)
Next ==
    \/ Tick
    \/ StartCycle
    \/ rpc = "fetch" /\ \E o \in Observations(variant) : Fetch(o)
    \/ BuildStatus
    \/ \E f \in FieldSet : StoreField(f)
    \/ LogCycle
    \/ Sleep
    \/ Request
    \/ CheckErrors
    \/ CheckWarnings
    \/ CopyField
    \/ WriteBody
    \/ Return

Spec == Init /\ [][Next]_vars

(***************************************************************************)
(* SpecLive: the goroutine scheduled fairly and every cluster call         *)
(* returning: a step of the goroutine that stays possible is taken.  Every *)
(* cycle finds the namespace listing failing, no source at all, or a       *)
(* failing source next to a healthy one.  The steps of the handler neither *)
(* enable nor disable a step of the goroutine; they are taken, and the     *)
(* clock advances, while the goroutine sleeps.  The order of the stores of *)
(* the assignment has no influence on the progress of the loop and is the  *)
(* declaration order.                                                      *)
(***************************************************************************)
LiveObservations(v) ==
    {o \in Observations(v) :
        o.nsErr \/ Len(o.namespaces[1].items) + Len(o.namespaces[2].items) # 1}

GoroutineStep ==
    \/ StartCycle
    \/ rpc = "fetch" /\ \E o \in LiveObservations(variant) : Fetch(o)
    \/ BuildStatus
    \/ \E i \in 1..Len(Fields) :
          /\ \A j \in 1..(i - 1) : Fields[j] \notin pending
          /\ StoreField(Fields[i])
    \/ LogCycle
    \/ Sleep

NextLive ==
    \/ rpc = "sleep" /\ hpc = "idle" /\ Tick
    \/ GoroutineStep
    \/ rpc = "sleep" /\ Request
    \/ rpc = "sleep" /\ CheckErrors
    \/ rpc = "sleep" /\ CheckWarnings
    \/ rpc = "sleep" /\ CopyField
    \/ rpc = "sleep" /\ WriteBody
    \/ rpc = "sleep" /\ Return

SpecLive == Init /\ [][NextLive]_vars /\ WF_vars(GoroutineStep)

(***************************************************************************)
(* SpecClassify: the classification of every source.  The cluster is in    *)
(* any state of RichObservations and stays in it from cycle to cycle; the  *)
(* clock advances and requests are served while the goroutine sleeps.  No  *)
(* request runs during the stores of the assignment, so their order is not *)
(* observable and they are taken in declaration order.                     *)
(***************************************************************************)
NextClassify ==
    \/ rpc = "sleep" /\ hpc = "idle" /\ Tick
    \/ hpc = "idle" /\ StartCycle
    \/ hpc = "idle" /\ rpc = "fetch"
       /\ \E o \in (IF cycle = 1 THEN RichObservations(variant, appConfig) ELSE {obs}) :
             Fetch(o)
    \/ hpc = "idle" /\ BuildStatus
    \/ hpc = "idle"
       /\ \E i \in 1..Len(Fields) :
             /\ \A j \in 1..(i - 1) : Fields[j] \notin pending
             /\ StoreField(Fields[i])
    \/ hpc = "idle" /\ LogCycle
    \/ hpc = "idle" /\ Sleep
    \/ rpc = "sleep" /\ Request
    \/ rpc = "sleep" /\ CheckErrors
    \/ rpc = "sleep" /\ CheckWarnings
    \/ rpc = "sleep" /\ CopyField
    \/ rpc = "sleep" /\ WriteBody
    \/ rpc = "sleep" /\ Return

SpecClassify == InitClassify /\ [][NextClassify]_vars

(***************************************************************************)
(* SpecCycles: cycle after cycle.  Every cycle finds the cluster in any of *)
(* the states of Observations, the clock advances at any point of a cycle, *)
(* and requests are served while the goroutine sleeps.                     *)
(***************************************************************************)
NextCycles ==
    \/ hpc = "idle" /\ Tick
    \/ hpc = "idle" /\ StartCycle
    \/ hpc = "idle" /\ rpc = "fetch" /\ \E o \in Observations(variant) : Fetch(o)
    \/ hpc = "idle" /\ BuildStatus
    \/ hpc = "idle"
       /\ \E i \in 1..Len(Fields) :
             /\ \A j \in 1..(i - 1) : Fields[j] \notin pending
             /\ StoreField(Fields[i])
    \/ hpc = "idle" /\ LogCycle
    \/ hpc = "idle" /\ Sleep
    \/ rpc = "sleep" /\ Request
    \/ rpc = "sleep" /\ CheckErrors
    \/ rpc = "sleep" /\ CheckWarnings
    \/ rpc = "sleep" /\ CopyField
    \/ rpc = "sleep" /\ WriteBody
    \/ rpc = "sleep" /\ Return

SpecCycles == Init /\ [][NextCycles]_vars

(***************************************************************************)
(* Properties.                                                             *)
(***************************************************************************)
\* The status code the endpoint documents for a serialised body.
TierOfBody(body) ==
    IF Len(body.errors.elems) > 0 THEN 202
    ELSE IF Len(body.warnings.elems) > 0 THEN 201
    ELSE 200

\* A request has read its whole copy of currentStatus.
ReadComplete == hpc \in {"write", "done"}

\* C1: every snapshot a status read observes equals, in all four fields,
\* the empty initial snapshot or the snapshot assigned by one cycle; no read
\* mixes fields of two cycles.
C1_ReadsAreAtomic ==
    ReadComplete =>
        \/ copy = ZeroStatus
        \/ \E i \in 1..Len(published) : copy = published[i]
        \/ (rpc = "store" /\ copy = newStatus)

\* C2: the status code of every response is the 200/201/202 tier of the
\* errors and warnings lists in the body of the same response.
C2_CodeMatchesBody ==
    hpc = "done" => response.code = TierOfBody(response.body)

\* C3: the code written is 202 when the snapshot read has errors, 201 when
\* it has warnings and no errors, 200 when it has neither, and never another
\* code.  (Under SpecClassify the snapshot does not change while a request
\* is handled, so the snapshot read is currentStatus.)
C3_StatusTiers ==
    hpc = "done" =>
        /\ response.code \in {200, 201, 202}
        /\ (LenSlice(currentStatus.Errors) > 0 => response.code = 202)
        /\ (LenSlice(currentStatus.Errors) = 0 /\ LenSlice(currentStatus.Warnings) > 0
               => response.code = 201)
        /\ (LenSlice(currentStatus.Errors) = 0 /\ LenSlice(currentStatus.Warnings) = 0
               => response.code = 200)
        /\ response.body = MarshalIndent(variant, currentStatus)

\* C3 witness: a response to a snapshot holding errors and warnings.
C3_Witness ==
    /\ hpc = "done"
    /\ LenSlice(currentStatus.Errors) > 0
    /\ LenSlice(currentStatus.Warnings) > 0
    /\ response.code = 202

(***************************************************************************)
(* The sources of the running cycle, as the claims speak of them.          *)
(***************************************************************************)
\* The sources the cycle's List calls returned.
Listed ==
    IF obs.nsErr THEN {}
    ELSE UNION {{[ns |-> obs.namespaces[k].name, src |-> obs.namespaces[k].items[i]] :
                    i \in 1..Len(obs.namespaces[k].items)} :
                k \in {j \in 1..Len(obs.namespaces) : ~obs.namespaces[j].listErr}}

\* Those whose certificate the revision looks at: every TLS entry of an
\* ingress; the secrets of type kubernetes.io/tls that are no kubed copy of
\* a secret of another namespace.
Considered ==
    {x \in Listed :
        \/ variant = "ingress"
        \/ /\ x.src.type = "kubernetes.io/tls"
           /\ (x.src.hasOrigin => x.src.originNS = x.ns)}

\* The secret is there, holds a non-empty tls.crt, and tls.crt is a PEM
\* block with a well-formed X.509 certificate.
ParsesOK(x) ==
    /\ ~(variant = "ingress" /\ x.src.secret.getErr)
    /\ x.src.secret.hasCrt
    /\ x.src.secret.crtLen
    /\ x.src.secret.pemOK
    /\ x.src.secret.x509OK

Parsed == {x \in Considered : ParsesOK(x)}

\* notAfter - now, in seconds, when the cycle looked at the certificate.
SecondsLeft(x) == x.src.secret.cert.NotAfter - fetchedAt

\* The name the messages about the certificate carry.
OwnerName(x) == IF variant = "ingress" THEN x.src.name ELSE x.src.secretName

Count(seq, P(_)) == Cardinality({i \in 1..Len(seq) : P(seq[i])})

ErrorsAbout(x, kinds) ==
    Count(fetched.errors.items,
          LAMBDA m : m.ns = x.ns /\ m.name = OwnerName(x) /\ m.kind \in kinds)

WarningsAbout(x) ==
    Count(fetched.warnings.items, LAMBDA m : m.ns = x.ns /\ m.name = OwnerName(x))

ExpiryKinds == {"expired on", "will expire in"}

IsRecordOf(r, x) ==
    IF variant = "ingress"
    THEN r.Namespace = x.ns /\ r.Name = x.src.name /\ r.TLSSecretName = x.src.secretName
    ELSE r.Namespace = x.ns /\ r.SecretName = x.src.secretName

InfoOf(r) == IF variant = "ingress" THEN r.CertificateInfo ELSE r

RecordsOf(x) == {i \in 1..Len(fetched.list.items) : IsRecordOf(fetched.list.items[i], x)}

\* x has exactly one record, and its isValid is v.
RecordedWithValid(x, v) ==
    /\ Cardinality(RecordsOf(x)) = 1
    /\ \A i \in RecordsOf(x) : InfoOf(fetched.list.items[i]).IsValid = v

\* Every expected host of x is covered by its certificate.
AllHostsCovered(x) ==
    \A i \in 1..Len(x.src.hosts) : VerifyHostname(x.src.secret.cert, x.src.hosts[i])

\* The cycle's results are the snapshot the endpoint serves.
CyclePublished ==
    /\ rpc = "sleep"
    /\ currentStatus.Errors = fetched.errors
    /\ currentStatus.Warnings = fetched.warnings
    /\ currentStatus.Certificates = fetched.list

\* C4: a parsed certificate whose notAfter is at or before the current time
\* is recorded with isValid = false, has exactly one "expired" entry in
\* errors, no other expiry entry and no entry in warnings.
C4_ExpiredIsCritical ==
    \A x \in Parsed :
        SecondsLeft(x) <= 0 =>
            /\ RecordedWithValid(x, FALSE)
            /\ ErrorsAbout(x, {"expired on"}) = 1
            /\ ErrorsAbout(x, {"will expire in"}) = 0
            /\ WarningsAbout(x) = 0

\* C4 witness: a published cycle with a certificate whose notAfter is the
\* current second, on an ingress with a host it does not cover.
C4_Witness ==
    /\ CyclePublished
    /\ \E x \in Parsed :
          /\ SecondsLeft(x) = 0
          /\ fetchedAt > 0
          /\ ~AllHostsCovered(x)

\* C5: a parsed certificate with 0 < daysLeft <= criticalDaysLeft has one
\* "will expire in {daysLeft} days" entry in errors, carrying its daysLeft,
\* no other expiry entry and no entry in warnings.
C5_CriticalRange ==
    \A x \in Parsed :
        (/\ SecondsLeft(x) >= SecondsPerDay
         /\ SecondsLeft(x) < (appConfig.CritDaysLeft + 1) * SecondsPerDay) =>
            /\ ErrorsAbout(x, {"will expire in"}) = 1
            /\ ErrorsAbout(x, {"expired on"}) = 0
            /\ WarningsAbout(x) = 0
            /\ \A i \in 1..LenSlice(fetched.errors) :
                  LET m == fetched.errors.items[i]
                  IN  (m.ns = x.ns /\ m.name = OwnerName(x) /\ m.kind = "will expire in")
                      => /\ m.days * SecondsPerDay <= SecondsLeft(x)
                         /\ SecondsLeft(x) < (m.days + 1) * SecondsPerDay

\* C5 witness: a published cycle with a certificate at daysLeft =
\* criticalDaysLeft exactly (and less than a day more).
C5_Witness ==
    /\ CyclePublished
    /\ appConfig.CritDaysLeft > 0
    /\ \E x \in Parsed :
          /\ SecondsLeft(x) >= appConfig.CritDaysLeft * SecondsPerDay
          /\ SecondsLeft(x) < (appConfig.CritDaysLeft + 1) * SecondsPerDay

\* All of a cycle's sources the revision looks at are the one source x.
OnlySource(x) == Considered = {x}

HostKinds == {"is not valid for host"}

\* C6: a parsed certificate with criticalDaysLeft < daysLeft < warnDaysLeft
\* has exactly one entry in warnings and no expiry entry in errors; a cycle
\* whose only certificate is such a one, all hosts covered, is answered 201.
C6_WarningRange ==
    \A x \in Parsed :
        (/\ SecondsLeft(x) >= (appConfig.CritDaysLeft + 1) * SecondsPerDay
         /\ SecondsLeft(x) < appConfig.WarnDaysLeft * SecondsPerDay) =>
            /\ WarningsAbout(x) = 1
            /\ ErrorsAbout(x, ExpiryKinds) = 0
            /\ (hpc = "done" /\ OnlySource(x) /\ AllHostsCovered(x)
                   => response.code = 201)

\* C6 witness: the response to a cycle whose only certificate has 20 days
\* left under the default thresholds.
C6_Witness ==
    /\ hpc = "done"
    /\ appConfig = DefaultConfig
    /\ \E x \in Parsed :
          /\ OnlySource(x)
          /\ AllHostsCovered(x)
          /\ SecondsLeft(x) = 20 * SecondsPerDay
          /\ response.code = 201

\* daysLeft >= w, for w >= 0, in terms of the seconds left.
AtLeastDays(seconds, w) ==
    IF w > 0 THEN seconds >= w * SecondsPerDay ELSE seconds > 0 - SecondsPerDay

\* The certificate is clean: no entry in errors or warnings, isValid = true,
\* and the cycle is answered 200 when it is its only certificate.
CleanCertificate(x) ==
    /\ ErrorsAbout(x, ExpiryKinds \cup HostKinds) = 0
    /\ WarningsAbout(x) = 0
    /\ RecordedWithValid(x, TRUE)
    /\ (hpc = "done" /\ OnlySource(x) => response.code = 200)

\* C7 as claimed: every parsed certificate with daysLeft >= warnDaysLeft
\* that covers its expected hosts is clean.
C7_Original ==
    \A x \in Parsed :
        (AtLeastDays(SecondsLeft(x), appConfig.WarnDaysLeft) /\ AllHostsCovered(x))
            => CleanCertificate(x)

\* C7 as amended: every parsed certificate with daysLeft >= warnDaysLeft,
\* daysLeft > criticalDaysLeft and daysLeft > 0 that covers its expected
\* hosts is clean.
C7_OkRange ==
    \A x \in Parsed :
        (/\ AtLeastDays(SecondsLeft(x), appConfig.WarnDaysLeft)
         /\ SecondsLeft(x) >= (appConfig.CritDaysLeft + 1) * SecondsPerDay
         /\ SecondsLeft(x) >= SecondsPerDay
         /\ AllHostsCovered(x))
            => CleanCertificate(x)

\* C7 witness: the response to a cycle whose only certificate is at
\* daysLeft = warnDaysLeft exactly, the thresholds being the defaults.
C7_Witness ==
    /\ hpc = "done"
    /\ appConfig = DefaultConfig
    /\ \E x \in Parsed :
          /\ OnlySource(x)
          /\ AllHostsCovered(x)
          /\ Len(x.src.hosts) > 0
          /\ SecondsLeft(x) = appConfig.WarnDaysLeft * SecondsPerDay
          /\ response.code = 200

\* The positions of x's host list that hold h, h not being covered.
UncoveredAt(x, h) ==
    {i \in 1..Len(x.src.hosts) :
        x.src.hosts[i] = h /\ ~VerifyHostname(x.src.secret.cert, h)}

HostErrors(x, h) ==
    Count(fetched.errors.items,
          LAMBDA m : /\ m.ns = x.ns /\ m.name = OwnerName(x)
                     /\ m.kind \in HostKinds /\ m.host = h)

\* C8: in the ingress revision every expected host a parsed certificate
\* does not cover gets one entry naming it, whatever the other hosts and
\* the expiry tier are, and clears isValid.
C8_EveryHostChecked ==
    variant = "ingress" =>
        \A x \in Parsed :
            /\ \A h \in HostNames : HostErrors(x, h) = Cardinality(UncoveredAt(x, h))
            /\ ErrorsAbout(x, HostKinds) =
                  Cardinality({i \in 1..Len(x.src.hosts) :
                                  ~VerifyHostname(x.src.secret.cert, x.src.hosts[i])})
            /\ (~AllHostsCovered(x) => RecordedWithValid(x, FALSE))

\* C8 witness: a published cycle with a certificate in the critical range
\* on an ingress with two hosts, neither covered.
C8_Witness ==
    /\ variant = "ingress"
    /\ CyclePublished
    /\ \E x \in Parsed :
          /\ SecondsLeft(x) >= SecondsPerDay
          /\ SecondsLeft(x) < (appConfig.CritDaysLeft + 1) * SecondsPerDay
          /\ Len(x.src.hosts) = 2
          /\ x.src.hosts[1] # x.src.hosts[2]
          /\ ErrorsAbout(x, HostKinds) = 2
          /\ ErrorsAbout(x, ExpiryKinds) = 1

\* The only anomaly of the cycle is that x, far from expiry, leaves one
\* expected host uncovered.
OnlyHostMismatch(x) ==
    /\ OnlySource(x)
    /\ AtLeastDays(SecondsLeft(x), appConfig.WarnDaysLeft)
    /\ SecondsLeft(x) >= (appConfig.CritDaysLeft + 1) * SecondsPerDay
    /\ SecondsLeft(x) >= SecondsPerDay
    /\ Cardinality({i \in 1..Len(x.src.hosts) :
                       ~VerifyHostname(x.src.secret.cert, x.src.hosts[i])}) = 1

\* C9 as claimed: such a cycle has isValid = false and is answered 200.
C9_Original ==
    hpc = "done" =>
        \A x \in Parsed :
            OnlyHostMismatch(x) => RecordedWithValid(x, FALSE) /\ response.code = 200

\* C9 as amended: such a cycle has isValid = false, the mismatch is one
\* entry of errors, and the endpoint answers 202.
C9_MismatchIsCritical ==
    hpc = "done" =>
        \A x \in Parsed :
            OnlyHostMismatch(x) =>
                /\ RecordedWithValid(x, FALSE)
                /\ ErrorsAbout(x, HostKinds) = 1
                /\ LenSlice(currentStatus.Errors) = 1
                /\ LenSlice(currentStatus.Warnings) = 0
                /\ response.code = 202

\* C9 witness: the response to a cycle whose only certificate has 100 days
\* left and misses one of the two hosts of its ingress.
C9_Witness ==
    /\ hpc = "done"
    /\ \E x \in Parsed :
          /\ OnlyHostMismatch(x)
          /\ Len(x.src.hosts) = 2
          /\ SecondsLeft(x) >= 99 * SecondsPerDay
          /\ response.code = 202

FailureKinds ==
    {"secret get failed", "tls.crt does not exist", "tls.crt is empty",
     "Failed to decode certificate", "Failed to parse certificate"}

\* The error a failing source must produce.
FailureOf(x) ==
    IF variant = "ingress" /\ x.src.secret.getErr THEN "secret get failed"
    ELSE IF ~x.src.secret.hasCrt THEN "tls.crt does not exist"
    ELSE IF ~x.src.secret.crtLen THEN "tls.crt is empty"
    ELSE IF ~x.src.secret.pemOK THEN "Failed to decode certificate"
    ELSE "Failed to parse certificate"

FailureErrors(x, kinds) ==
    Count(fetched.errors.items,
          LAMBDA m : m.ns = x.ns /\ m.name = x.src.secretName /\ m.kind \in kinds)

\* C10: a source whose fetch or parse fails gives exactly one entry in
\* errors (the one of its failure), no record, no expiry or host entry; the
\* other sources are processed all the same, and what the cycle collected
\* is what it publishes.
C10_FailedSourceIsolated ==
    /\ \A x \in Considered \ Parsed :
          /\ FailureErrors(x, {FailureOf(x)}) = 1
          /\ FailureErrors(x, FailureKinds) = 1
          /\ ErrorsAbout(x, ExpiryKinds \cup HostKinds) = 0
          /\ WarningsAbout(x) = 0
          /\ RecordsOf(x) = {}
    /\ \A y \in Parsed : Cardinality(RecordsOf(y)) = 1 /\ FailureErrors(y, FailureKinds) = 0
    /\ LenSlice(fetched.list) = Cardinality(Parsed)
    /\ (rpc \in {"log", "sleep"} =>
          /\ currentStatus.Errors = fetched.errors
          /\ currentStatus.Warnings = fetched.warnings
          /\ currentStatus.Certificates = fetched.list)

\* C10 witness: a published cycle whose first source fails and whose second
\* source is parsed and recorded.
C10_Witness ==
    /\ CyclePublished
    /\ \E x \in Considered \ Parsed, y \in Parsed :
          /\ x.src.secretName = SecretNames[1]
          /\ y.src.secretName = SecretNames[2]
          /\ Cardinality(RecordsOf(y)) = 1
          /\ LenSlice(fetched.errors) >= 1

\* The goroutine has stored every field of the cycle's StatusResponse.
Assigned == rpc \in {"log", "sleep"}

\* C11: a cycle whose namespace listing fails publishes a snapshot with
\* exactly one error, no warnings and no records; it is the snapshot now
\* served, in place of the one of the cycle before, and the goroutine goes
\* on to its sleep and the next cycle.
C11_EnumerationFailurePublished ==
    (Assigned /\ obs.nsErr) =>
        /\ LenSlice(currentStatus.Errors) = 1
        /\ LenSlice(currentStatus.Warnings) = 0
        /\ LenSlice(currentStatus.Certificates) = 0
        /\ Len(published) = cycle
        /\ published[cycle] = currentStatus
        /\ (rpc = "log" => ENABLED LogCycle)
        /\ (rpc = "sleep" => ENABLED Sleep)

\* C11 witness: the second cycle's namespace listing failed after the first
\* cycle had published a record; the record is no longer served.
C11_Witness ==
    /\ rpc = "sleep"
    /\ obs.nsErr
    /\ cycle = 2
    /\ LenSlice(published[1].Certificates) = 1
    /\ LenSlice(currentStatus.Certificates) = 0
    /\ LenSlice(currentStatus.Errors) = 1

\* C12: every namespace whose Ingresses/Secrets List call failed in the
\* cycle has an entry in the cycle's errors.
C12_ListFailuresReported ==
    obs.nsErr \/
    \A k \in 1..Len(obs.namespaces) :
        obs.namespaces[k].listErr =>
            \E i \in 1..LenSlice(fetched.errors) :
                fetched.errors.items[i].ns = obs.namespaces[k].name

\* C13: a read that completes before any cycle has begun to assign returns
\* the empty initial snapshot with code 200, and every read returns a
\* snapshot at least as recent as the last one published when its request
\* arrived (so no later read goes back to an earlier cycle).
C13_ReadsLatest ==
    /\ (hpc = "done" /\ published = <<>> /\ rpc # "store") =>
            response = [code |-> 200, body |-> MarshalIndent(variant, ZeroStatus)]
    /\ ReadComplete =>
            \/ arrived = 0 /\ copy = ZeroStatus
            \/ \E k \in arrived..Len(published) : k >= 1 /\ copy = published[k]
            \/ rpc = "store" /\ copy = newStatus

\* C14: with fair scheduling and cluster calls that return, every started
\* cycle reaches the end of its assignment, every sleep is followed by the
\* start of another cycle (as long as the model's bound on the number of
\* cycles allows one), and all MaxCycles cycles publish.
C14_LoopKeepsPublishing ==
    /\ (rpc = "fetch") ~> (rpc = "log")
    /\ (rpc = "sleep" /\ cycle < MaxCycles) ~> (rpc = "fetch")
    /\ <>(Len(published) = MaxCycles)

\* C14 witness: the last cycle has published and sleeps, after an earlier
\* cycle whose namespace listing failed.
C14_Witness ==
    /\ rpc = "sleep"
    /\ cycle = MaxCycles
    /\ Len(published) = MaxCycles
    /\ LenSlice(published[1].Errors) = 1
    /\ LenSlice(published[1].Certificates) = 0
    /\ LenSlice(published[MaxCycles].Certificates) > 0

\* The snapshots a read whose request arrived after `arrived` publications
\* may return: the last one published then, or a later one.
Returnable ==
    {published[k] : k \in {j \in arrived..Len(published) : j >= 1}}
    \cup (IF arrived = 0 THEN {ZeroStatus} ELSE {})

\* C15: a request can take its next step in every state, whatever the
\* goroutine is doing, and the body it writes is a complete published
\* snapshot (the last one published when it arrived, or a later one), never
\* the value of a currentStatus that is being assigned.
C15_ReadsNeverBlock ==
    /\ (hpc = "idle" => ENABLED Request)
    /\ (hpc # "idle" =>
            ENABLED (CheckErrors \/ CheckWarnings \/ CopyField \/ WriteBody \/ Return))
    /\ (hpc = "done" =>
            \E st \in Returnable : response.body = MarshalIndent(variant, st))

\* C16: the LastUpdated of the snapshot a cycle assigns is the time read at
\* the start of the cycle.
C16_StampedAtCycleStart ==
    rpc \in {"store", "log", "sleep"} => newStatus.LastUpdated = TimeString(start)

\* C17: the daysLeft recorded for a certificate is the quotient of
\* notAfter - now (in seconds) by 86400 truncated toward zero, for negative
\* differences as for positive ones; with less than a day on either side
\* of notAfter it is 0 and the certificate is reported as expired.
C17_DaysLeftTruncates ==
    \A x \in Parsed :
        \A i \in RecordsOf(x) :
            LET d == InfoOf(fetched.list.items[i]).DaysLeft
                sec == SecondsLeft(x)
            IN  /\ (sec >= 0 => d >= 0 /\ d * SecondsPerDay <= sec
                                 /\ sec < (d + 1) * SecondsPerDay)
                /\ (sec <= 0 => d <= 0 /\ (d - 1) * SecondsPerDay < sec
                                 /\ sec <= d * SecondsPerDay)
                /\ ((0 - SecondsPerDay < sec /\ sec < SecondsPerDay) =>
                        d = 0 /\ ErrorsAbout(x, {"expired on"}) = 1)

\* C17 witness: a published cycle with a certificate that expired one
\* second before the cycle looked at it, recorded with daysLeft 0.
C17_Witness ==
    /\ CyclePublished
    /\ \E x \in Parsed :
          /\ SecondsLeft(x) = 0 - 1
          /\ \E i \in RecordsOf(x) : InfoOf(fetched.list.items[i]).DaysLeft = 0

\* C18: in the ingress revision the record of a parsed certificate has
\* isValid = true exactly when daysLeft > 0 and the certificate covers
\* every expected host; a certificate in the critical range that covers
\* its hosts has its entry in errors and isValid = true.
C18_ValidIffUnexpiredAndCovered ==
    variant = "ingress" =>
        \A x \in Parsed :
            /\ RecordedWithValid(x, SecondsLeft(x) >= SecondsPerDay /\ AllHostsCovered(x))
            /\ (/\ SecondsLeft(x) >= SecondsPerDay
                /\ SecondsLeft(x) < (appConfig.CritDaysLeft + 1) * SecondsPerDay
                /\ AllHostsCovered(x))
                   => ErrorsAbout(x, {"will expire in"}) = 1 /\ RecordedWithValid(x, TRUE)

\* C18 witness: a published cycle of the ingress revision with a
\* certificate in the critical range that covers the host of its ingress.
C18_Witness ==
    /\ variant = "ingress"
    /\ CyclePublished
    /\ \E x \in Parsed :
          /\ SecondsLeft(x) >= SecondsPerDay
          /\ SecondsLeft(x) < (appConfig.CritDaysLeft + 1) * SecondsPerDay
          /\ Len(x.src.hosts) > 0
          /\ AllHostsCovered(x)
          /\ ErrorsAbout(x, {"will expire in"}) = 1
          /\ RecordedWithValid(x, TRUE)

\* C19: with a warning threshold that does not exceed the critical one no
\* cycle collects a warning, no snapshot assigned or served has one, and
\* no response has code 201.
C19_NoWarnState ==
    appConfig.WarnDaysLeft <= appConfig.CritDaysLeft =>
        /\ LenSlice(fetched.warnings) = 0
        /\ LenSlice(currentStatus.Warnings) = 0
        /\ \A i \in 1..Len(published) : LenSlice(published[i].Warnings) = 0
        /\ (hpc = "done" => response.code # 201)

\* C19 witness: the thresholds exchanged, a response to a cycle with a
\* certificate whose daysLeft is positive and below the warning threshold.
C19_Witness ==
    /\ appConfig.WarnDaysLeft < appConfig.CritDaysLeft
    /\ hpc = "done"
    /\ response.code = 202
    /\ \E x \in Parsed :
          /\ SecondsLeft(x) >= SecondsPerDay
          /\ SecondsLeft(x) < appConfig.WarnDaysLeft * SecondsPerDay

\* What the revision's scan function returns for the cluster state obs.
ScanOf(o, at) ==
    IF variant = "ingress" THEN getIngresses(o, appConfig, at)
    ELSE getCertificateList(o, appConfig, at)

\* C20: the records, errors and warnings of the snapshot a cycle assigns
\* are those the scan of what this cycle observed gives, whatever the
\* cycles before observed and published.
C20_CyclesIndependent ==
    Assigned =>
        /\ currentStatus.Errors = ScanOf(obs, fetchedAt).errors
        /\ currentStatus.Warnings = ScanOf(obs, fetchedAt).warnings
        /\ currentStatus.Certificates = ScanOf(obs, fetchedAt).list
        /\ published[cycle] = currentStatus

\* C20 witness: the first cycle published an error and a warning, the
\* second one finds a healthy source and publishes neither.
C20_Witness ==
    /\ rpc = "sleep"
    /\ cycle = 2
    /\ LenSlice(published[1].Errors) > 0
    /\ LenSlice(published[1].Warnings) > 0
    /\ LenSlice(currentStatus.Errors) = 0
    /\ LenSlice(currentStatus.Warnings) = 0
    /\ LenSlice(currentStatus.Certificates) = 1

\* The snapshot last assigned in full: the zero value before the first
\* assignment.
LastPublished ==
    IF published = <<>> THEN ZeroStatus ELSE published[Len(published)]

\* C21: in every step, currentStatus changes only inside the cycle's one
\* assignment, which comes after the scan and stores each field once with
\* the value of the StatusResponse built from the scan; outside the
\* assignment (during the scan, the logs, the sleep) currentStatus is the
\* snapshot last assigned, and the snapshots assigned before stay as they
\* were.
C21_OnlyAssignmentWrites ==
    [][/\ (currentStatus' # currentStatus => rpc = "store")
       /\ \A f \in FieldSet :
             currentStatus'[f] # currentStatus[f] =>
                 /\ f \in pending
                 /\ f \notin pending'
                 /\ currentStatus'[f] = newStatus[f]
       /\ (rpc # "store" => currentStatus = LastPublished)
       /\ (rpc' # "store" => currentStatus' = LastPublished')
       /\ Len(published') >= Len(published)
       /\ Len(published') <= cycle'
       /\ \A i \in 1..Len(published) : published'[i] = published[i]]_vars

\* C21 witness: the second cycle has scanned the cluster and found other
\* errors than the first; currentStatus still is the first cycle's
\* snapshot.
C21_Witness ==
    /\ rpc = "assign"
    /\ cycle = 2
    /\ currentStatus = published[1]
    /\ LenSlice(currentStatus.Certificates) > 0
    /\ fetched.errors # currentStatus.Errors
    /\ fetched.list # currentStatus.Certificates

\* C22: in the secrets revision the errors and warnings of every snapshot
\* a cycle assigns are lists, not nil, and are serialised as JSON arrays,
\* not as null.
C22_ListsNeverNull ==
    variant = "secrets" =>
        /\ \A i \in 1..Len(published) :
              /\ ~published[i].Errors.isNil
              /\ ~published[i].Warnings.isNil
              /\ MarshalIndent(variant, published[i]).errors.json = "array"
              /\ MarshalIndent(variant, published[i]).warnings.json = "array"
        /\ (hpc = "done" /\ Len(published) > 0 =>
                /\ response.body.errors.json = "array"
                /\ response.body.warnings.json = "array")

\* The secret src listed in namespace ns is of type kubernetes.io/tls and
\* carries no kubed origin label or the one of ns itself.
Eligible(ns, src) ==
    /\ src.type = "kubernetes.io/tls"
    /\ (src.hasOrigin => src.originNS = ns)

\* The cluster state o without its secrets that are not eligible.
EligibleOnly(o) ==
    [o EXCEPT !.namespaces =
        [k \in 1..Len(o.namespaces) |->
            [o.namespaces[k] EXCEPT !.items =
                SelectSeq(@, LAMBDA src : Eligible(o.namespaces[k].name, src))]]]

\* C23: in the secrets revision a secret that is not of type
\* kubernetes.io/tls, or that is a copy labelled with another origin
\* namespace, has no record and no entry in errors or warnings, and the
\* records, errors and warnings a scan returns are those of the same
\* cluster without these secrets.
C23_OnlyEligibleSecrets ==
    (variant = "secrets" /\ rpc \in {"assign", "store", "log", "sleep"}) =>
        /\ \A x \in Listed :
              ~Eligible(x.ns, x.src) =>
                  /\ RecordsOf(x) = {}
                  /\ ErrorsAbout(x, ExpiryKinds \cup HostKinds \cup FailureKinds) = 0
                  /\ WarningsAbout(x) = 0
        /\ fetched = getCertificateList(EligibleOnly(obs), appConfig, fetchedAt)
        /\ LenSlice(fetched.list) + LenSlice(fetched.errors)
              <= 2 * Cardinality({x \in Listed : Eligible(x.ns, x.src)})
                 + (IF obs.nsErr THEN 1 ELSE 0)

\* C23 witness: a published cycle of the secrets revision whose only secret
\* is a TLS secret copied from another namespace, with an expired
\* certificate, and nothing is reported.
C23_Witness ==
    /\ variant = "secrets"
    /\ CyclePublished
    /\ LenSlice(fetched.errors) = 0
    /\ LenSlice(fetched.list) = 0
    /\ \E x \in Listed :
          /\ x.src.type = "kubernetes.io/tls"
          /\ x.src.hasOrigin
          /\ x.src.originNS # x.ns
          /\ ParsesOK(x)
          /\ SecondsLeft(x) <= 0

====
